---- MODULE Spec2Model ----
(***************************************************************************)
(* Model of src/src/runtime/body-parser.ts: the bodyparser() entry point,  *)
(* its content-type dispatch, the JSON route (body-parser + reviver) and   *)
(* the form route (busboy event handlers, deferred resolve).               *)
(*                                                                         *)
(* Strings are TLA+ strings; TLC evaluates Len, SubSeq and \o on them.     *)
(* The form decoder (busboy), the JSON decoder (body-parser), the mime     *)
(* matcher (attr-accept) and the file system are the environment: their    *)
(* steps are the Decoder*, Stream*, Mkdir* and Json* actions, each of      *)
(* which runs the whole handler the code registered for that event.        *)
(***************************************************************************)
EXTENDS Naturals, Sequences, FiniteSets, TLC

VARIABLES
    contentType,  \* req.headers['content-type'], or NoHeader
    options,      \* the BodyParserOptions the caller passed
    pc,           \* "start" | "skip" | "json" | "form"
    errors,       \* the errors array of line 84
    data,         \* the data object of line 151 (the ResultTree)
    reqBody,      \* req.body
    promise,      \* state of the promise bodyparser returned
    settleCalls,  \* how many times resolve / reject / return null was reached
    timer,        \* TRUE while the setTimeout of line 230 is pending
    busboy,       \* the form decoder: what it counted and emitted
    parts,        \* the parts of the body the decoder has reached, in order
    dirExists,    \* whether uploadDir exists in the file system
    jsonInput     \* what the JSON decoder will report for the body

vars == <<contentType, options, pc, errors, data, reqBody, promise,
          settleCalls, timer, busboy, parts, dirExists, jsonInput>>

(***************************************************************************)
(* Bounds of the model.                                                    *)
(***************************************************************************)
MaxParts == 3     \* parts (fields and files) in one form body
MaxChunk == 2     \* largest chunk length a file stream delivers
MaxStrLen == 3    \* longest string leaf in a JSON body
MaxOpen == 1      \* file streams handed out and not yet ended

NoHeader == "<absent>"
Undefined == "<undefined>"

(***************************************************************************)
(* ACCEPT and the dispatch test of lines 95-98.                            *)
(***************************************************************************)
ACCEPT == <<"application/json", "application/x-www-form-urlencoded",
            "multipart/form-data">>

StartsWithCI(s, p) ==
    \* a prefix test that ignores the case of the first letter
    /\ Len(s) >= Len(p)
    /\ \/ SubSeq(s, 1, Len(p)) = p
       \/ /\ Len(p) > 0
          /\ SubSeq(s, 2, Len(p)) = SubSeq(p, 2, Len(p))
          /\ <<SubSeq(s, 1, 1), SubSeq(p, 1, 1)>> \in
                {<<"A", "a">>, <<"M", "m">>}

StartsWith(s, p) ==
    \* String.prototype.startsWith
    Len(s) >= Len(p) /\ SubSeq(s, 1, Len(p)) = p

Accepted(ct) ==
    \* lines 95-96: a falsy header is skipped, then ACCEPT.some(startsWith)
    /\ ct # NoHeader
    /\ ct # ""
    /\ \E i \in 1..Len(ACCEPT) : StartsWith(ct, ACCEPT[i])

IsJson(ct) == StartsWith(ct, "application/json")

ContentTypes ==
    {NoHeader, "", "text/plain", "Application/json", "application/jso",
     " application/json", "application/json", "application/json; charset=utf-8",
     "application/x-www-form-urlencoded", "Multipart/form-data",
     "multipart/form-data; boundary=x"}

(***************************************************************************)
(* The result tree and setField ('./set-field', not under src/): modelled  *)
(* from section 4.1 of the specification, for names of one segment with    *)
(* an optional trailing [] (append).                                       *)
(***************************************************************************)
FieldNames == {"a[]", "b"}
FileFieldNames == {"b"}

IsAppend(raw) == Len(raw) >= 3 /\ SubSeq(raw, Len(raw) - 1, Len(raw)) = "[]"

KeyOf(raw) == IF IsAppend(raw) THEN SubSeq(raw, 1, Len(raw) - 2) ELSE raw

Keys == {KeyOf(n) : n \in FieldNames}

Absent == [t |-> "absent"]

EmptyTree == [k \in Keys |-> Absent]

setField(tree, raw, value) ==
    LET k == KeyOf(raw)
    IN  IF IsAppend(raw)
        THEN [tree EXCEPT ![k] =
                IF @.t = "list"
                THEN [t |-> "list", items |-> Append(@.items, value)]
                ELSE [t |-> "list", items |-> <<value>>]]
        ELSE [tree EXCEPT ![k] = [t |-> "leaf", v |-> value]]

\* the values found in the tree under key k
ValuesAt(tree, k) ==
    IF tree[k].t = "leaf" THEN {tree[k].v}
    ELSE IF tree[k].t = "list"
         THEN {tree[k].items[i] : i \in 1..Len(tree[k].items)}
         ELSE {}

TreeValues(tree) == UNION {ValuesAt(tree, k) : k \in Keys}

(***************************************************************************)
(* Options (lines 25-69) and their normalisation (lines 82-93).  Sizes are *)
(* given as byte counts; 0 stands for an option that was not given, as     *)
(* `x || undefined` makes of it.                                           *)
(***************************************************************************)
FileCounts == {0, 1}
FieldSizes == {0, 1, 2}
MimePatterns == {"", "image/*"}
UploadDirs == {"", "/up"}

OptionSets ==
    [fileCount : FileCounts, fileSize : BOOLEAN, fieldSize : FieldSizes,
     mimeType : MimePatterns, uploadDir : UploadDirs, onFile : BOOLEAN]

DefaultOptions ==
    [fileCount |-> 0, fileSize |-> FALSE, fieldSize |-> 0,
     mimeType |-> "", uploadDir |-> "", onFile |-> FALSE]

uploadDir == IF options.uploadDir # "" THEN options.uploadDir ELSE "/tmp"
maxFileCount == options.fileCount
maxFieldSize == options.fieldSize

\* attr-accept for the two patterns of MimePatterns
accepts(type, pattern) ==
    pattern = "image/*" => StartsWith(type, "image/")

\* line 154: the 'file' listener is only registered for these options
FileListener ==
    maxFileCount # 0 \/ options.uploadDir # "" \/ options.onFile

(***************************************************************************)
(* Parts of a form body, as the decoder reaches them.  A part records what *)
(* the decoder reported and what was done with its stream.                 *)
(***************************************************************************)
\* (filename, mimeType) of a file part and the number of bytes of its
\* content; an empty file input is sent with filename="", no content and
\* application/octet-stream
FileInfos ==
    {[filename |-> "", mimeType |-> "application/octet-stream", bytes |-> 0],
     [filename |-> "x.png", mimeType |-> "image/png", bytes |-> 3],
     [filename |-> "x.txt", mimeType |-> "text/plain", bytes |-> 1]}

\* a File object (lines 18-23, 156-160); obj is the identity of the object
NoFile == [obj |-> 0, name |-> "", type |-> "", size |-> 0, path |-> Undefined]

FieldPart(i, name, nt, vt) ==
    [kind |-> "field", field |-> name,
     fieldTruncated |-> (nt \/ vt),
     phase |-> "none", value |-> NoFile, truncated |-> FALSE,
     counted |-> FALSE, onFileCalls |-> 0, mkdirCalls |-> 0,
     writeStreams |-> 0, bytes |-> 0, received |-> 0]

FilePart(i, name, filename, mime, bytes, counted, phase) ==
    [kind |-> "file", field |-> name,
     fieldTruncated |-> FALSE,
     phase |-> phase,
     value |-> [obj |-> i, name |-> filename, type |-> mime, size |-> 0,
                path |-> Undefined],
     truncated |-> FALSE,
     counted |-> counted, onFileCalls |-> 0, mkdirCalls |-> 0,
     writeStreams |-> 0, bytes |-> bytes, received |-> 0]

Violation(name, about) == [name |-> name, about |-> about]

(***************************************************************************)
(* The promise bodyparser returns.  A promise settles once: later calls of *)
(* resolve or reject leave it as it is.                                    *)
(***************************************************************************)
\* value names the object the promise was settled with: "null", "errors"
\* (the errors array), "data" (the data object) or "req.body"
Pending == [state |-> "pending", value |-> Undefined]

Settle(p, state, value) ==
    IF p.state = "pending" THEN [state |-> state, value |-> value] ELSE p

(***************************************************************************)
(* The handlers of the form route, as functions of what they read.         *)
(***************************************************************************)
\* busboy.on('field'), lines 204-213
fieldHandlerNoCheck(errs, tree, field, value, info) ==
    [errors |-> errs, data |-> setField(tree, field, value)]

fieldHandlerValueOnly(errs, tree, field, value, info) ==
    \* only info.valueTruncated is looked at
    IF info.valueTruncated
    THEN [errors |-> Append(errs, Violation("FIELD_SIZE_EXCEEDED", field)),
          data |-> tree]
    ELSE [errors |-> errs, data |-> setField(tree, field, value)]

fieldHandlerShortCircuit(errs, tree, field, value, info) ==
    \* nothing is handled any more once a violation was recorded
    IF errs # <<>>
    THEN [errors |-> errs, data |-> tree]
    ELSE IF info.nameTruncated \/ info.valueTruncated
         THEN [errors |-> Append(errs,
                            Violation("FIELD_SIZE_EXCEEDED", field)),
               data |-> tree]
         ELSE [errors |-> errs, data |-> setField(tree, field, value)]

fieldHandlerPlainName(errs, tree, field, value, info) ==
    \* the field name is stripped of its [] before it is assigned
    IF info.nameTruncated \/ info.valueTruncated
    THEN [errors |-> Append(errs, Violation("FIELD_SIZE_EXCEEDED", field)),
          data |-> tree]
    ELSE [errors |-> errs, data |-> setField(tree, KeyOf(field), value)]

fieldHandler(errs, tree, field, value, info) ==
    IF info.nameTruncated \/ info.valueTruncated
    THEN [errors |-> Append(errs, Violation("FIELD_SIZE_EXCEEDED", field)),
          data |-> tree]
    ELSE [errors |-> errs, data |-> setField(tree, field, value)]

\* busboy.on('filesLimit'), lines 215-220
filesLimitHandlerReplace(errs) ==
    <<Violation("FILE_COUNT_EXCEEDED", "files")>>

filesLimitHandler(errs) ==
    Append(errs, Violation("FILE_COUNT_EXCEEDED", "files"))

\* busboy.on('file'), lines 155-183, up to the first await: what becomes of
\* the stream, and the violation recorded, if any
fileHandlerNoEmptyCheck(filename, mime) ==
    IF options.mimeType # "" /\ ~accepts(mime, options.mimeType)
    THEN [phase |-> "draining", rejected |-> TRUE]
    ELSE IF options.onFile
         THEN [phase |-> "active", rejected |-> FALSE]
         ELSE [phase |-> "mkdir", rejected |-> FALSE]

fileHandlerNoMime(filename, mime) ==
    IF filename = ""
    THEN [phase |-> "draining", rejected |-> FALSE]
    ELSE IF options.onFile
         THEN [phase |-> "active", rejected |-> FALSE]
         ELSE [phase |-> "mkdir", rejected |-> FALSE]

fileHandlerBoth(filename, mime) ==
    IF filename = ""
    THEN [phase |-> "draining", rejected |-> FALSE]
    ELSE IF options.mimeType # "" /\ ~accepts(mime, options.mimeType)
         THEN [phase |-> "draining", rejected |-> TRUE]
         ELSE [phase |-> "mkdir", rejected |-> FALSE]

fileHandler(filename, mime) ==
    IF filename = ""
    THEN [phase |-> "draining", rejected |-> FALSE]
    ELSE IF options.mimeType # "" /\ ~accepts(mime, options.mimeType)
         THEN [phase |-> "draining", rejected |-> TRUE]
         ELSE IF options.onFile
              THEN [phase |-> "active", rejected |-> FALSE]
              ELSE [phase |-> "mkdir", rejected |-> FALSE]

\* file.on('data'), lines 185-187; chunk is data.length
dataHandlerSum(value, chunk) == [value EXCEPT !.size = @ + chunk]

dataHandler(value, chunk) == [value EXCEPT !.size = chunk]

\* file.on('end'), lines 189-200
fileEndHandlerKeep(errs, tree, part, truncated) ==
    IF truncated
    THEN [errors |-> Append(errs,
                       Violation("FILE_SIZE_EXCEEDED", part.value.name)),
          data |-> setField(tree, part.field, part.value)]
    ELSE [errors |-> errs, data |-> setField(tree, part.field, part.value)]

fileEndHandler(errs, tree, part, truncated) ==
    IF truncated
    THEN [errors |-> Append(errs,
                       Violation("FILE_SIZE_EXCEEDED", part.value.name)),
          data |-> tree]
    ELSE [errors |-> errs, data |-> setField(tree, part.field, part.value)]

\* busboy.on('finish'), lines 222-233: what the handler does before it
\* returns: reject at once, or store the body and set the timer that
\* resolves; it never calls resolve itself
finishHandlerFallThrough(errs) ==
    [reject |-> Len(errs) > 0, resolve |-> FALSE, setBody |-> TRUE,
     timer |-> TRUE]

finishHandlerBodyFirst(errs) ==
    \* req.body is assigned before errors is looked at
    [reject |-> Len(errs) > 0, resolve |-> FALSE, setBody |-> TRUE,
     timer |-> Len(errs) = 0]

finishHandlerNoReject(errs) ==
    [reject |-> FALSE, resolve |-> FALSE, setBody |-> TRUE, timer |-> TRUE]

finishHandlerResolveNow(errs) ==
    \* resolve(data) is called without the setTimeout around it
    IF Len(errs) > 0
    THEN [reject |-> TRUE, resolve |-> FALSE, setBody |-> FALSE,
          timer |-> FALSE]
    ELSE [reject |-> FALSE, resolve |-> TRUE, setBody |-> TRUE,
          timer |-> FALSE]

finishHandler(errs) ==
    IF Len(errs) > 0
    THEN [reject |-> TRUE, resolve |-> FALSE, setBody |-> FALSE,
          timer |-> FALSE]
    ELSE [reject |-> FALSE, resolve |-> FALSE, setBody |-> TRUE,
          timer |-> TRUE]

(***************************************************************************)
(* The JSON route, lines 101-137.  A parsed body is a tree of              *)
(*   [t |-> "str", len |-> n]  [t |-> "num"]                               *)
(*   [t |-> "arr", items |-> <<value, ...>>]                               *)
(*   [t |-> "obj", items |-> <<[key |-> k, val |-> value], ...>>]          *)
(* with the members of an object in the order JSON.parse visits them.      *)
(***************************************************************************)
Str(n) == [t |-> "str", len |-> n]
Num == [t |-> "num"]
Arr(items) == [t |-> "arr", items |-> items]
Obj(items) == [t |-> "obj", items |-> items]
Member(k, v) == [key |-> k, val |-> v]
EmptyObject == Obj(<<>>)

Digits == {"0", "1", "2", "3", "4", "5", "6", "7", "8", "9"}

\* /[0-9]+/.test(key): the key holds a digit somewhere
HasDigit(key) == \E i \in 1..Len(key) : SubSeq(key, i, i) \in Digits

\* the reviver of lines 107-118; st is [lastKey, errors]
reviverAtLeast(st, key, value) ==
    [errors |->
        IF value.t = "str" /\ value.len >= maxFieldSize
        THEN Append(st.errors,
                Violation("FIELD_SIZE_EXCEEDED",
                    IF HasDigit(key) THEN st.lastKey \o "." \o key ELSE key))
        ELSE st.errors,
     lastKey |-> IF HasDigit(key) THEN st.lastKey ELSE key]

reviver(st, key, value) ==
    [errors |->
        IF value.t = "str" /\ value.len > maxFieldSize
        THEN Append(st.errors,
                Violation("FIELD_SIZE_EXCEEDED",
                    IF HasDigit(key) THEN st.lastKey \o "." \o key ELSE key))
        ELSE st.errors,
     lastKey |-> IF HasDigit(key) THEN st.lastKey ELSE key]

\* JSON.parse with a reviver: the members of a container are revived in
\* order, each after its own members, and the container after them
RECURSIVE internalize(_, _, _)
RECURSIVE internalizeFrom(_, _, _)

internalizeFrom(st, value, i) ==
    IF i > Len(value.items) THEN st
    ELSE internalizeFrom(
            IF value.t = "arr"
            THEN internalize(st, ToString(i - 1), value.items[i])
            ELSE internalize(st, value.items[i].key, value.items[i].val),
            value, i + 1)

internalize(st, key, value) ==
    reviver(IF value.t \in {"arr", "obj"}
            THEN internalizeFrom(st, value, 1)
            ELSE st,
            key, value)

\* what the reviver has pushed once bodyParser.json has parsed the body
Revived(body) ==
    IF maxFieldSize # 0
    THEN internalize([errors |-> <<>>, lastKey |-> Undefined], "", body).errors
    ELSE <<>>

\* the callback of lines 123-136, given what the decoder reported
jsonCallback(errs, result) ==
    LET errs2 == IF result = "entity.too.large"
                 THEN Append(errs, Violation("JSON_SIZE_EXCEEDED", "json"))
                 ELSE errs
    IN  [errors |-> errs2, reject |-> Len(errs2) > 0]

\* bounded JSON bodies
StrLens == 1..MaxStrLen
Leaves == {Str(n) : n \in StrLens} \cup {Num}
ObjKeys == {"a", "k1"}

Containers(vals) ==
    {Arr(<<>>), EmptyObject}
    \cup {Arr(<<v>>) : v \in vals}
    \cup {Arr(<<v, w>>) : v \in vals, w \in vals}
    \cup {Obj(<<Member(k, v)>>) : k \in ObjKeys, v \in vals}
    \cup UNION {{Obj(<<Member(k, v), Member(l, w)>>) :
                    l \in ObjKeys \ {k}, v \in vals, w \in vals} :
                 k \in ObjKeys}

Nested ==
    {Obj(<<Member("a", c)>>) : c \in Containers(Leaves)}
    \cup {Arr(<<c>>) : c \in Containers(Leaves)}
    \cup {Obj(<<Member("b", l), Member("a", c)>>) :
            l \in Leaves, c \in Containers({Str(MaxStrLen), Num})}
    \cup {Obj(<<Member("a", c), Member("b", l)>>) :
            l \in Leaves, c \in Containers({Str(MaxStrLen), Num})}

JsonBodies == Containers(Leaves) \cup Nested

JsonResults == {"ok", "entity.too.large", "entity.parse.failed"}

NoJson == [result |-> "none", body |-> EmptyObject]

(***************************************************************************)
(* Initial states: a request and the options of one call of bodyparser.    *)
(* Options a route never reads are left at their defaults on that route.   *)
(***************************************************************************)
\* On the form route limits.fieldSize and limits.fileSize are only passed to
\* the decoder (lines 146-147) and printed: fieldSize is left unset, and
\* fileSize is set, which allows every behaviour the route has without it
\* (then no stream is truncated).  uploadDir is not used once onFile is
\* given (lines 154, 173-183).
FormOptions ==
    {o \in OptionSets :
        o.fieldSize = 0 /\ o.fileSize /\ (o.onFile => o.uploadDir = "")}

JsonOptions ==
    {[DefaultOptions EXCEPT !.fieldSize = n] : n \in FieldSizes}

Init ==
    /\ contentType \in ContentTypes
    /\ options \in (IF ~Accepted(contentType) THEN OptionSets
                    ELSE IF IsJson(contentType) THEN JsonOptions
                    ELSE FormOptions)
    /\ jsonInput \in (IF Accepted(contentType) /\ IsJson(contentType)
                      THEN {[result |-> "ok", body |-> b] : b \in JsonBodies}
                           \cup {[result |-> r, body |-> EmptyObject] :
                                    r \in JsonResults \ {"ok"}}
                      ELSE {NoJson})
    /\ pc = "start"
    /\ errors = <<>>
    /\ data = EmptyTree
    /\ reqBody = Undefined
    /\ promise = Pending
    /\ settleCalls = 0
    /\ timer = FALSE
    /\ busboy = [created |-> FALSE, files |-> 0, hitFilesLimit |-> FALSE,
                 finished |-> FALSE]
    /\ parts = <<>>
    /\ dirExists = FALSE

(***************************************************************************)
(* bodyparser(), lines 82-101 and 141-235: skip, or start one of the two   *)
(* decoders.                                                               *)
(***************************************************************************)
Dispatch ==
    /\ pc = "start"
    /\ IF ~Accepted(contentType)
       THEN /\ pc' = "skip"
            /\ promise' = Settle(promise, "null", "null")
            /\ settleCalls' = settleCalls + 1
            /\ UNCHANGED busboy
       ELSE IF IsJson(contentType)
       THEN /\ pc' = "json"
            /\ UNCHANGED <<promise, settleCalls, busboy>>
       ELSE /\ pc' = "form"
            /\ busboy' = [busboy EXCEPT !.created = TRUE]
            /\ UNCHANGED <<promise, settleCalls>>
    /\ UNCHANGED <<contentType, options, errors, data, reqBody, timer, parts,
                   dirExists, jsonInput>>

(***************************************************************************)
(* The JSON decoder calls back (lines 123-136), after the reviver ran over *)
(* a body it parsed.  body-parser leaves req.body = {} when it fails.      *)
(***************************************************************************)
JsonDone ==
    /\ pc = "json"
    /\ LET pushed == IF jsonInput.result = "ok"
                     THEN Revived(jsonInput.body) ELSE <<>>
           r == jsonCallback(errors \o pushed, jsonInput.result)
       IN  /\ errors' = r.errors
           /\ reqBody' = jsonInput.body
           /\ promise' = IF r.reject
                         THEN Settle(promise, "rejected", "errors")
                         ELSE Settle(promise, "resolved", "req.body")
    /\ settleCalls' = settleCalls + 1
    /\ pc' = "done"
    /\ UNCHANGED <<contentType, options, data, timer, busboy, parts, dirExists,
                   jsonInput>>

(***************************************************************************)
(* The form decoder.  It reaches the parts of the body in order.  A field  *)
(* part is emitted as a 'field' event.  A file part (multipart only) is    *)
(* counted against limits.files whatever its filename (lines 28-29); past  *)
(* the limit it is discarded and 'filesLimit' is emitted once; without a   *)
(* 'file' listener it is discarded; otherwise it is emitted as a 'file'    *)
(* event with its stream.  'finish' waits for every stream handed out to   *)
(* have ended.                                                             *)
(***************************************************************************)
Open == pc = "form" /\ busboy.created /\ ~busboy.finished

IsMultipart == StartsWith(contentType, "multipart/form-data")

FieldValue(i) == [v |-> i]

DecoderField(name, nt, vt) ==
    /\ Open
    /\ Len(parts) < MaxParts
    /\ LET i == Len(parts) + 1
           info == [nameTruncated |-> nt, valueTruncated |-> vt]
           r == fieldHandler(errors, data, name, FieldValue(i), info)
       IN  /\ errors' = r.errors
           /\ data' = r.data
           /\ parts' = Append(parts, FieldPart(i, name, nt, vt))
    /\ UNCHANGED <<contentType, options, pc, reqBody, promise, settleCalls,
                   timer, busboy, dirExists, jsonInput>>

OpenStreams ==
    {i \in 1..Len(parts) :
        parts[i].phase \in {"draining", "mkdir", "failed", "active"}}

DecoderFile(name, filename, mime, bytes) ==
    /\ Open
    /\ IsMultipart
    /\ Len(parts) < MaxParts
    /\ LET i == Len(parts) + 1
       IN  IF maxFileCount # 0 /\ busboy.files = maxFileCount
           THEN \* over the limit: discarded, 'filesLimit' emitted once
                /\ parts' = Append(parts,
                      FilePart(i, name, filename, mime, bytes, FALSE,
                               "skipped"))
                /\ busboy' = [busboy EXCEPT !.hitFilesLimit = TRUE]
                /\ errors' = IF busboy.hitFilesLimit THEN errors
                             ELSE filesLimitHandler(errors)
           ELSE IF ~FileListener
           THEN \* counted, and discarded for want of a listener
                /\ parts' = Append(parts,
                      FilePart(i, name, filename, mime, bytes, TRUE,
                               "skipped"))
                /\ busboy' = [busboy EXCEPT !.files = @ + 1]
                /\ UNCHANGED errors
           ELSE \* counted, and handed to the 'file' listener
                /\ Cardinality(OpenStreams) < MaxOpen
                /\ LET h == fileHandler(filename, mime)
                       p == FilePart(i, name, filename, mime, bytes, TRUE,
                                     h.phase)
                   IN  /\ parts' = Append(parts,
                             [p EXCEPT
                                !.onFileCalls =
                                    IF h.phase = "active" THEN 1 ELSE 0,
                                !.mkdirCalls =
                                    IF h.phase = "mkdir" THEN 1 ELSE 0])
                       /\ busboy' = [busboy EXCEPT !.files = @ + 1]
                       /\ errors' =
                            IF h.rejected
                            THEN Append(errors,
                                    Violation("FILE_TYPE_REJECTED", filename))
                            ELSE errors
    /\ UNCHANGED <<contentType, options, pc, data, reqBody, promise,
                   settleCalls, timer, dirExists, jsonInput>>

\* a stream that was resumed with no listener runs dry
StreamDrained(i) ==
    /\ pc = "form"
    /\ i \in 1..Len(parts)
    /\ parts[i].phase = "draining"
    /\ parts' = [parts EXCEPT ![i].phase = "ended"]
    /\ UNCHANGED <<contentType, options, pc, errors, data, reqBody, promise,
                   settleCalls, timer, busboy, dirExists, jsonInput>>

\* lines 177-187 after the await: mkdir succeeded
\* picoid(17) is taken to give part i a suffix of its own
storagePath(field, i) == uploadDir \o "/" \o field \o "_" \o ToString(i)

MkdirDone(i) ==
    /\ pc = "form"
    /\ i \in 1..Len(parts)
    /\ parts[i].phase = "mkdir"
    /\ dirExists' = TRUE
    /\ parts' = [parts EXCEPT
                   ![i].value.path = storagePath(parts[i].field, i),
                   ![i].writeStreams = @ + 1,
                   ![i].phase = "active"]
    /\ UNCHANGED <<contentType, options, pc, errors, data, reqBody, promise,
                   settleCalls, timer, busboy, jsonInput>>

\* mkdir rejected: the listener's promise rejects, the stream is never read
MkdirFailed(i) ==
    /\ pc = "form"
    /\ i \in 1..Len(parts)
    /\ parts[i].phase = "mkdir"
    /\ parts' = [parts EXCEPT ![i].phase = "failed"]
    /\ UNCHANGED <<contentType, options, pc, errors, data, reqBody, promise,
                   settleCalls, timer, busboy, dirExists, jsonInput>>

\* the stream delivers the next len bytes of the part's content as one
\* chunk; received is what it has delivered so far
StreamData(i, len) ==
    /\ pc = "form"
    /\ i \in 1..Len(parts)
    /\ parts[i].phase = "active"
    /\ parts[i].received + len <= parts[i].bytes
    /\ parts' = [parts EXCEPT ![i].value = dataHandler(@, len),
                              ![i].received = @ + len]
    /\ UNCHANGED <<contentType, options, pc, errors, data, reqBody, promise,
                   settleCalls, timer, busboy, dirExists, jsonInput>>

\* the stream ends: after the whole content, or truncated after the bytes
\* limits.fileSize allows when the content is longer; file.on('end')
StreamEnd(i, truncated) ==
    /\ pc = "form"
    /\ i \in 1..Len(parts)
    /\ parts[i].phase = "active"
    /\ IF truncated
       THEN /\ options.fileSize
            /\ parts[i].received >= 1
            /\ parts[i].received < parts[i].bytes
       ELSE parts[i].received = parts[i].bytes
    /\ LET r == fileEndHandler(errors, data, parts[i], truncated)
       IN  /\ errors' = r.errors
           /\ data' = r.data
    /\ parts' = [parts EXCEPT ![i].phase = "ended",
                              ![i].truncated = truncated]
    /\ UNCHANGED <<contentType, options, pc, reqBody, promise, settleCalls,
                   timer, busboy, dirExists, jsonInput>>

StreamsEnded ==
    \A i \in 1..Len(parts) : parts[i].phase \in {"none", "skipped", "ended"}

\* the decoder emits 'finish'; busboy.on('finish'), lines 222-233
DecoderFinish ==
    /\ Open
    /\ StreamsEnded
    /\ busboy' = [busboy EXCEPT !.finished = TRUE]
    /\ LET r == finishHandler(errors)
       IN  /\ promise' = IF r.reject
                         THEN Settle(promise, "rejected", "errors")
                         ELSE IF r.resolve
                              THEN Settle(promise, "resolved", "data")
                              ELSE promise
           /\ settleCalls' = IF r.reject \/ r.resolve
                             THEN settleCalls + 1 ELSE settleCalls
           /\ reqBody' = IF r.setBody THEN "data" ELSE reqBody
           /\ timer' = r.timer
    /\ UNCHANGED <<contentType, options, pc, errors, data, parts, dirExists,
                   jsonInput>>

\* the timer of lines 230-232 fires
TimerFired ==
    /\ timer
    /\ timer' = FALSE
    /\ promise' = Settle(promise, "resolved", "data")
    /\ settleCalls' = settleCalls + 1
    /\ UNCHANGED <<contentType, options, pc, errors, data, reqBody, busboy,
                   parts, dirExists, jsonInput>>

Next ==
    \/ Dispatch
    \/ JsonDone
    \/ \E name \in FieldNames, nt \in BOOLEAN, vt \in BOOLEAN :
          DecoderField(name, nt, vt)
    \/ \E name \in FileFieldNames, info \in FileInfos :
          DecoderFile(name, info.filename, info.mimeType, info.bytes)
    \/ \E i \in 1..MaxParts : StreamDrained(i)
    \/ \E i \in 1..MaxParts : MkdirDone(i)
    \/ \E i \in 1..MaxParts : MkdirFailed(i)
    \/ \E i \in 1..MaxParts, len \in 1..MaxChunk : StreamData(i, len)
    \/ \E i \in 1..MaxParts, truncated \in BOOLEAN : StreamEnd(i, truncated)
    \/ DecoderFinish
    \/ TimerFired

Spec == Init /\ [][Next]_vars

(***************************************************************************)
(* Scheduling.  The event loop runs every callback that is ready: the      *)
(* decoder calls back, a stream that is read delivers its content and      *)
(* ends, mkdir completes one way or the other, the request body ends and   *)
(* the timer fires.  How many parts the body has is up to the client.      *)
(***************************************************************************)
Fairness ==
    /\ WF_vars(Dispatch)
    /\ WF_vars(JsonDone)
    /\ WF_vars(DecoderFinish)
    /\ WF_vars(TimerFired)
    /\ \A i \in 1..MaxParts :
          /\ WF_vars(StreamDrained(i))
          /\ WF_vars(MkdirDone(i) \/ MkdirFailed(i))
          /\ WF_vars(\E len \in 1..MaxChunk : StreamData(i, len))
          /\ WF_vars(\E truncated \in BOOLEAN : StreamEnd(i, truncated))

FairSpec == Spec /\ Fairness

(***************************************************************************)
(* Vocabulary of the properties.                                           *)
(***************************************************************************)
FormRoute == pc = "form"
Success == promise.state = "resolved"
Failure == promise.state = "rejected"
Skip == promise.state = "null"
Settled == promise.state # "pending"

PartIds == 1..Len(parts)
FileParts == {i \in PartIds : parts[i].kind = "file"}
FieldParts == {i \in PartIds : parts[i].kind = "field"}

\* the number of recorded violations of one kind
CountErrors(name) ==
    Cardinality({j \in 1..Len(errors) : errors[j].name = name})

IsPrefix(s, t) == Len(s) <= Len(t) /\ SubSeq(t, 1, Len(s)) = s

\* file parts whose stream was handed to the 'file' listener
Handed == {i \in FileParts : parts[i].phase # "skipped"}

\* the value a part stands for in the tree
PartValue(i) ==
    IF parts[i].kind = "field" THEN FieldValue(i) ELSE parts[i].value

InTree(i) == PartValue(i) \in ValuesAt(data, KeyOf(parts[i].field))

MimeMatches(i) ==
    options.mimeType = "" \/ accepts(parts[i].value.type, options.mimeType)

TruncatedFiles == {i \in FileParts : parts[i].truncated}

SideWork(i) ==
    parts[i].onFileCalls + parts[i].mkdirCalls + parts[i].writeStreams

----------------------------------------------------------------------------
C1_Outcome ==
    FormRoute =>
        /\ settleCalls <= 1
        /\ Settled => busboy.finished /\ (Success \/ Failure)
        /\ busboy.finished /\ ~timer => Settled /\ settleCalls = 1

C1_Stable ==
    Settled => /\ promise' = promise
               /\ errors' = errors
               /\ data' = data
               /\ settleCalls' = settleCalls

(* C1: on the form route resolve/reject is reached at most once; once      *)
(* 'finish' was handled and the timer has run exactly one outcome, Success *)
(* or Failure, has been delivered, none is delivered before 'finish'; and  *)
(* a delivered outcome, with the errors or the tree it carries, never      *)
(* changes afterwards.                                                     *)
C1_OneOutcome == [](C1_Outcome) /\ [][C1_Stable]_vars

C1_Witness ==
    /\ FormRoute /\ Success /\ settleCalls = 1 /\ ~timer
    /\ Len(parts) >= 2

(* C2: on the form route, once any violation is recorded the outcome is    *)
(* never Success, and it is Failure as soon as 'finish' is handled;        *)
(* Success, and the pending timer that leads to it, only exist with no     *)
(* violation recorded.                                                     *)
C2_ViolationFails ==
    FormRoute =>
        /\ Success \/ timer => errors = <<>>
        /\ busboy.finished /\ errors # <<>> => Failure
        /\ Failure => errors # <<>>

C2_Witness ==
    /\ FormRoute /\ Failure
    /\ TruncatedFiles # {}
    /\ \E i \in FieldParts : InTree(i)

C3_Counted ==
    /\ FormRoute =>
        /\ CountErrors("FIELD_SIZE_EXCEEDED") =
              Cardinality({i \in FieldParts : parts[i].fieldTruncated})
        /\ CountErrors("FILE_SIZE_EXCEEDED") = Cardinality(TruncatedFiles)
        /\ CountErrors("FILE_TYPE_REJECTED") =
              Cardinality({i \in Handed :
                  parts[i].value.name # "" /\ ~MimeMatches(i)})
        /\ CountErrors("FILE_COUNT_EXCEEDED") =
              (IF busboy.hitFilesLimit THEN 1 ELSE 0)
        /\ CountErrors("JSON_SIZE_EXCEEDED") = 0
    /\ Failure => promise.value = "errors"

(* C3: the violation list only grows at its end, and on the form route it  *)
(* holds one violation for every violating event: every truncated field,   *)
(* every rejected file, every truncated stream and the one 'filesLimit'    *)
(* event.  A Failure is settled with that very list.                       *)
C3_AppendOnly == [](C3_Counted) /\ [][IsPrefix(errors, errors')]_vars

C3_Witness ==
    /\ FormRoute /\ Failure
    /\ Len(errors) >= 3
    /\ errors[1].name = "FIELD_SIZE_EXCEEDED"
    /\ errors[2].name = "FILE_COUNT_EXCEEDED"
    /\ errors[3].name = "FILE_SIZE_EXCEEDED"

(* C4: every file whose stream ended truncated has its own                 *)
(* FILE_SIZE_EXCEEDED violation, is not in the tree, and the operation     *)
(* does not end in Success: after 'finish' it has failed, req.body was not *)
(* set and the rejection carries the errors, not the tree.                 *)
C4_TruncatedFile ==
    FormRoute /\ TruncatedFiles # {} =>
        /\ options.fileSize
        /\ CountErrors("FILE_SIZE_EXCEEDED") = Cardinality(TruncatedFiles)
        /\ \A i \in TruncatedFiles :
              /\ ~InTree(i)
              /\ Violation("FILE_SIZE_EXCEEDED", parts[i].value.name) \in
                    {errors[j] : j \in 1..Len(errors)}
        /\ ~Success /\ ~timer
        /\ busboy.finished =>
              Failure /\ promise.value = "errors" /\ reqBody = Undefined

C4_Witness ==
    /\ FormRoute /\ Failure
    /\ Cardinality(TruncatedFiles) = 1
    /\ Len(errors) = 1
    /\ \E i \in FieldParts : InTree(i)

EmptyNamed == {i \in FileParts : parts[i].value.name = ""}

(* C5: a file part with an empty filename never appears in the tree, has   *)
(* no violation recorded for it and starts no side-work (no onFile call,   *)
(* no mkdir, no write stream, no storage path).  It does count toward      *)
(* maxFileCount.                                                           *)
C5_EmptyFilename ==
    /\ \A i \in EmptyNamed :
          /\ ~InTree(i)
          /\ SideWork(i) = 0
          /\ parts[i].value.path = Undefined
          /\ parts[i].phase \in {"skipped", "draining", "ended"}
          /\ parts[i].phase # "skipped" => parts[i].counted
    /\ \A j \in 1..Len(errors) :
          errors[j].name \in {"FILE_TYPE_REJECTED", "FILE_SIZE_EXCEEDED"}
             => errors[j].about # ""

C5_Witness ==
    /\ FormRoute /\ Success
    /\ \E i \in EmptyNamed : parts[i].phase = "ended"
    /\ \E i \in FileParts : InTree(i)

\* C5 as stated: FILE_COUNT_EXCEEDED is only ever recorded when more file
\* parts with a filename than maxFileCount were sent
C5_NeverCounted ==
    CountErrors("FILE_COUNT_EXCEEDED") > 0 =>
        Cardinality(FileParts \ EmptyNamed) > maxFileCount

RoutedType(ct) ==
    /\ ct # NoHeader
    /\ \/ Len(ct) >= 16 /\ SubSeq(ct, 1, 16) = "application/json"
       \/ Len(ct) >= 33
            /\ SubSeq(ct, 1, 33) = "application/x-www-form-urlencoded"
       \/ Len(ct) >= 19 /\ SubSeq(ct, 1, 19) = "multipart/form-data"

(* C6: a request is routed to a decoder exactly if its content type starts *)
(* with one of the three accepted types, letter case included; any other,  *)
(* and an absent one, settles with null and touches nothing: no decoder,   *)
(* no violation, req.body and the tree as they were.                       *)
C6_Dispatch ==
    pc # "start" =>
        /\ pc \in {"json", "form", "done"} <=> RoutedType(contentType)
        /\ pc = "skip" <=> ~RoutedType(contentType)
        /\ pc = "skip" =>
              /\ Skip /\ promise.value = "null" /\ settleCalls = 1
              /\ ~busboy.created
              /\ errors = <<>>
              /\ reqBody = Undefined
              /\ data = EmptyTree
              /\ parts = <<>>
        /\ Skip => pc = "skip"

C6_Witness == pc = "skip" /\ contentType = "text/plain" /\ Skip

AcceptedFiles ==
    {i \in Handed : parts[i].value.name # "" /\ MimeMatches(i)}

(* C7: a file part that passed the filename and mime tests is handed to    *)
(* onFile exactly once and never touches the file system when onFile is    *)
(* given; without onFile mkdir is called once, and a write stream is only  *)
(* opened once the directory exists, at a path inside it that is stored in *)
(* the file's path.                                                        *)
C7_SideWork ==
    \A i \in AcceptedFiles :
        IF options.onFile
        THEN /\ parts[i].onFileCalls = 1
             /\ parts[i].mkdirCalls = 0
             /\ parts[i].writeStreams = 0
             /\ parts[i].value.path = Undefined
             /\ ~dirExists
        ELSE /\ parts[i].onFileCalls = 0
             /\ parts[i].mkdirCalls = 1
             /\ parts[i].writeStreams <= 1
             /\ parts[i].writeStreams = 1 <=>
                   parts[i].phase \in {"active", "ended"}
             /\ parts[i].writeStreams = 1 =>
                   /\ dirExists
                   /\ StartsWith(parts[i].value.path, uploadDir \o "/")
             /\ parts[i].writeStreams = 0 => parts[i].value.path = Undefined

C7_Witness ==
    \E i \in AcceptedFiles :
        /\ parts[i].writeStreams = 1
        /\ parts[i].value.path = "/up/b_" \o ToString(i)
        /\ parts[i].phase = "ended"

GoodFields == {i \in FieldParts : ~parts[i].fieldTruncated}

\* file parts with a filename, an accepted type and a stream not truncated
ExpectedFiles ==
    {i \in FileParts :
        /\ parts[i].value.name # ""
        /\ MimeMatches(i)
        /\ ~parts[i].truncated}

\* every part of exp is in the tree or was replaced by another one of exp
Reflects(exp) ==
    /\ \A i \in exp :
          \/ InTree(i)
          \/ /\ ~IsAppend(parts[i].field)
             /\ \E j \in exp \ {i} : parts[j].field = parts[i].field
    /\ TreeValues(data) \subseteq {PartValue(i) : i \in exp}

(* C8: when the 'file' listener is registered (fileCount, uploadDir or     *)
(* onFile given) and a form operation has ended in Success, the tree holds *)
(* the value of every field that was not truncated and the File object of  *)
(* every file part with a filename whose type was accepted and whose       *)
(* stream was not truncated, unless a later assignment to the same plain   *)
(* name replaced it, and holds nothing else; without the listener it holds *)
(* the fields only.                                                        *)
C8_SuccessTree ==
    FormRoute /\ Success =>
        /\ promise.value = "data"
        /\ Reflects(GoodFields \cup
                    (IF FileListener THEN ExpectedFiles ELSE {}))
        /\ \A i \in ExpectedFiles \cap Handed : parts[i].phase = "ended"

C8_Witness ==
    /\ FormRoute /\ Success
    /\ \E i \in FieldParts : parts[i].field = "a[]" /\ InTree(i)
    /\ \E i \in FileParts : InTree(i) /\ parts[i].value.size > 0
    /\ \E i \in FieldParts : parts[i].field = "b" /\ ~InTree(i)

\* C8 as stated, for every configuration of the options
C8_EveryConfiguration ==
    FormRoute /\ Success => Reflects(GoodFields \cup ExpectedFiles)

Mismatched ==
    {i \in FileParts : parts[i].value.name # "" /\ ~MimeMatches(i)}

RejectedFiles(among) ==
    /\ CountErrors("FILE_TYPE_REJECTED") = Cardinality(among)
    /\ \A i \in among :
          /\ Violation("FILE_TYPE_REJECTED", parts[i].value.name) \in
                {errors[j] : j \in 1..Len(errors)}
          /\ SideWork(i) = 0
          /\ parts[i].value.path = Undefined
          /\ ~InTree(i)
    /\ among # {} =>
          /\ ~Success /\ ~timer
          /\ busboy.finished => Failure

(* C9: when a mime pattern is set, every file part with a filename that is *)
(* handed to the 'file' listener and whose type does not match has its own *)
(* FILE_TYPE_REJECTED violation, starts no side-work, is not in the tree,  *)
(* and the operation does not end in Success: after 'finish' it has        *)
(* failed.                                                                 *)
C9_MimeRejected == FormRoute => RejectedFiles(Mismatched \cap Handed)

C9_Witness ==
    /\ FormRoute /\ Failure
    /\ Mismatched \cap Handed # {}
    /\ options.onFile
    /\ \E i \in AcceptedFiles : parts[i].onFileCalls = 1

\* C9 as stated, for every configuration and every such part
C9_EveryConfiguration == FormRoute => RejectedFiles(Mismatched)

\* the number of string leaves of a body longer than limit
RECURSIVE Oversized(_, _)
RECURSIVE OversizedFrom(_, _, _)

OversizedFrom(value, limit, i) ==
    IF i > Len(value.items) THEN 0
    ELSE Oversized(IF value.t = "arr" THEN value.items[i]
                   ELSE value.items[i].val, limit)
         + OversizedFrom(value, limit, i + 1)

Oversized(value, limit) ==
    IF value.t = "str" THEN (IF value.len > limit THEN 1 ELSE 0)
    ELSE IF value.t = "num" THEN 0
    ELSE OversizedFrom(value, limit, 1)

(* C10: on the JSON route with a field-size limit, once the decoder has    *)
(* called back for a body it parsed, the number of FIELD_SIZE_EXCEEDED     *)
(* violations is the number of string leaves longer than the limit, no     *)
(* other violation is recorded, and the outcome is Failure exactly if that *)
(* number is not zero.                                                     *)
C10_JsonFieldSize ==
    pc = "done" /\ jsonInput.result = "ok" /\ maxFieldSize # 0 =>
        /\ CountErrors("FIELD_SIZE_EXCEEDED") =
              Oversized(jsonInput.body, maxFieldSize)
        /\ Len(errors) = CountErrors("FIELD_SIZE_EXCEEDED")
        /\ Failure <=> Oversized(jsonInput.body, maxFieldSize) > 0
        /\ Success <=> Oversized(jsonInput.body, maxFieldSize) = 0

C10_Witness ==
    /\ pc = "done" /\ jsonInput.result = "ok" /\ maxFieldSize = 2
    /\ Oversized(jsonInput.body, maxFieldSize) = 1
    /\ Oversized(jsonInput.body, 1) = 2
    /\ Len(errors) = 1
    /\ Failure

\* the parts that are field events named name and not truncated, in the
\* order the decoder emitted them
EmittedFields(name) ==
    SelectSeq([i \in 1..Len(parts) |-> i],
              LAMBDA i : /\ parts[i].kind = "field"
                         /\ parts[i].field = name
                         /\ ~parts[i].fieldTruncated)

AppendNames == {n \in FieldNames : IsAppend(n)}

(* C11: the list under an append name holds the values of the field       *)
(* events of that name that were not truncated, in the order the decoder   *)
(* emitted them, whatever other field and file events (and stream ends)    *)
(* came between them; this is the list a Success delivers.                 *)
C11_AppendOrder ==
    FormRoute =>
        \A n \in AppendNames :
            LET idx == EmittedFields(n)
            IN  IF idx = <<>>
                THEN data[KeyOf(n)] = Absent
                ELSE data[KeyOf(n)] =
                        [t |-> "list",
                         items |-> [j \in 1..Len(idx) |-> FieldValue(idx[j])]]

C11_Witness ==
    /\ FormRoute /\ Success
    /\ Len(parts) = 3
    /\ parts[1].kind = "field" /\ parts[1].field = "a[]"
    /\ parts[2].kind = "file" /\ InTree(2)
    /\ parts[3].kind = "field" /\ parts[3].field = "a[]"
    /\ data["a"] = [t |-> "list", items |-> <<FieldValue(1), FieldValue(3)>>]

\* the step that handles 'finish'
FinishEvent == FormRoute /\ ~busboy.finished /\ busboy'.finished

C12_Step ==
    /\ FinishEvent =>
          IF errors = <<>>
          THEN promise' = Pending /\ timer'
          ELSE promise'.state = "rejected" /\ ~timer'
    /\ FormRoute /\ promise.state # "resolved"
          /\ promise'.state = "resolved" =>
             busboy.finished /\ timer /\ ~timer'

(* C12: a Success is never delivered in the turn that handles 'finish':    *)
(* that turn leaves the promise pending and sets a timer, and the promise  *)
(* is resolved by the timer's callback, a later turn.  A Failure is        *)
(* delivered in the turn that handles 'finish', with no timer.             *)
C12_DeferredSuccess == [][C12_Step]_vars

C12_Witness ==
    /\ FormRoute /\ busboy.finished
    /\ timer /\ promise = Pending
    /\ reqBody = "data"
    /\ \E i \in FileParts : InTree(i)

\* C12 as stated, for every outcome: the turn that handles 'finish'
\* delivers nothing
C12_EveryOutcomeDeferred == [][FinishEvent => promise' = promise]_vars

\* the step is an event for a new part of the body
NewPart == Len(parts') = Len(parts) + 1

\* no outcome, and nothing that belongs to one, before 'finish' is handled
C13_OpenUntilFinish ==
    FormRoute /\ ~busboy.finished =>
        /\ promise = Pending
        /\ settleCalls = 0
        /\ ~timer
        /\ reqBody = Undefined

\* a step taken with a violation on record and 'finish' not yet handled
C13_Step ==
    FormRoute /\ errors # <<>> /\ ~busboy.finished =>
        /\ pc' = pc
        /\ IsPrefix(errors, errors')
        /\ promise' # promise => busboy'.finished
        /\ NewPart =>
              LET i == Len(parts')
                  p == parts'[i]
              IN  /\ p.kind = "field" /\ ~p.fieldTruncated =>
                        /\ data' = setField(data, p.field, FieldValue(i))
                        /\ errors' = errors
                  /\ p.kind = "field" /\ p.fieldTruncated =>
                        /\ data' = data
                        /\ errors' = Append(errors,
                              Violation("FIELD_SIZE_EXCEEDED", p.field))
                  /\ p.kind = "file" /\ p.phase # "skipped" =>
                        /\ p.phase = fileHandler(p.value.name,
                                                 p.value.type).phase
                        /\ Len(errors') = Len(errors) +
                              (IF fileHandler(p.value.name,
                                              p.value.type).rejected
                               THEN 1 ELSE 0)

(* C13: recording a violation settles nothing and stops nothing: until     *)
(* 'finish' is handled the promise stays pending whatever was recorded,    *)
(* and with a violation on record every further field and file event is    *)
(* handled by the same rules (a valid field is assigned, a truncated one   *)
(* and a rejected file append their violation); the promise only changes   *)
(* in the step that handles 'finish' or after it.                          *)
C13_NoShortCircuit == [](C13_OpenUntilFinish) /\ [][C13_Step]_vars

C13_Witness ==
    /\ FormRoute /\ ~busboy.finished /\ promise = Pending
    /\ Len(errors) = 2
    /\ errors[1].name = "FILE_COUNT_EXCEEDED"
    /\ errors[2].name = "FILE_SIZE_EXCEEDED"
    /\ Len(parts) = 3
    /\ parts[2].phase = "skipped"
    /\ parts[3].kind = "field" /\ InTree(3)

\* a step that handles a 'field' event
FieldEvent == NewPart /\ parts'[Len(parts')].kind = "field"

C15_Step ==
    FieldEvent =>
        LET i == Len(parts')
            p == parts'[i]
        IN  IF p.fieldTruncated
            THEN /\ errors' = Append(errors,
                       Violation("FIELD_SIZE_EXCEEDED", p.field))
                 /\ data' = data
            ELSE /\ errors' = errors
                 /\ data' = setField(data, p.field, FieldValue(i))
                 /\ FieldValue(i) \in ValuesAt(data', KeyOf(p.field))

(* C15: every 'field' event whose name or value the decoder reports        *)
(* truncated appends exactly one FIELD_SIZE_EXCEEDED violation, naming the *)
(* field, and leaves the tree as it was; every other 'field' event appends *)
(* no violation and assigns its value at the field's path.                 *)
C15_FieldEvent == [][C15_Step]_vars

C15_Witness ==
    /\ FormRoute
    /\ Len(parts) = 3
    /\ \A i \in 1..3 : parts[i].kind = "field" /\ parts[i].field = "b"
    /\ ~parts[1].fieldTruncated /\ parts[2].fieldTruncated
    /\ ~parts[3].fieldTruncated
    /\ errors = <<Violation("FIELD_SIZE_EXCEEDED", "b")>>
    /\ data["b"] = [t |-> "leaf", v |-> FieldValue(3)]

\* a step in which the stream of part i delivers a chunk
Delivers(i) ==
    /\ i \in 1..Len(parts)
    /\ Len(parts') = Len(parts)
    /\ parts'[i].received # parts[i].received

C16_Size ==
    \A i \in FileParts :
        /\ parts[i].received = 0 => parts[i].value.size = 0
        /\ parts[i].received > 0 =>
              parts[i].value.size \in 1..MaxChunk
        /\ parts[i].value.size <= parts[i].received
        /\ parts[i].received <= parts[i].bytes

C16_Step ==
    \A i \in 1..Len(parts) :
        IF Delivers(i)
        THEN parts'[i].value.size = parts'[i].received - parts[i].received
        ELSE Len(parts') = Len(parts) =>
                parts'[i].value.size = parts[i].value.size

(* C16: the size of a File object is 0 until its stream has delivered a    *)
(* chunk; a step that delivers a chunk makes it the length of that chunk,  *)
(* whatever was delivered before, and no other step changes it, so the     *)
(* File object assigned into the tree when the stream ends carries the     *)
(* length of the last chunk, not the number of bytes delivered.            *)
C16_LastChunk == [](C16_Size) /\ [][C16_Step]_vars

C16_Witness ==
    /\ FormRoute /\ Success
    /\ \E i \in FileParts :
          /\ InTree(i)
          /\ parts[i].bytes = 3 /\ parts[i].received = 3
          /\ parts[i].value.size = 1
          /\ data[KeyOf(parts[i].field)].v.size = 1

\* the names the oversized string leaves of a body should be reported
\* under: a member of an object under its own key, an element of an array
\* under the nearest enclosing object key followed by its index
RECURSIVE PathNames(_, _, _, _)
RECURSIVE PathNamesFrom(_, _, _, _)

PathNamesFrom(value, encl, limit, i) ==
    IF i > Len(value.items) THEN {}
    ELSE (IF value.t = "arr"
          THEN PathNames(value.items[i], encl \o "." \o ToString(i - 1),
                         encl, limit)
          ELSE PathNames(value.items[i].val, value.items[i].key,
                         value.items[i].key, limit))
         \cup PathNamesFrom(value, encl, limit, i + 1)

PathNames(value, name, encl, limit) ==
    IF value.t = "str" THEN (IF value.len > limit THEN {name} ELSE {})
    ELSE IF value.t = "num" THEN {}
    ELSE PathNamesFrom(value, encl, limit, 1)

ReportedNames == {errors[j].about : j \in 1..Len(errors)}

(* C17: on the JSON route with a field-size limit, for a parsed body that  *)
(* is an object, the FIELD_SIZE_EXCEEDED violations name exactly: for an   *)
(* oversized string that is a member of an object its own key, and for one *)
(* that is an element of an array the nearest enclosing object key         *)
(* followed by "." and its index (a.0 for {a: [s]}).                       *)
C17_EnclosingKey ==
    /\ pc = "done" /\ jsonInput.result = "ok" /\ maxFieldSize # 0
    /\ jsonInput.body.t = "obj"
    => ReportedNames = PathNames(jsonInput.body, "", Undefined, maxFieldSize)

\* part i is a file part whose stream was handed to the 'file' listener
Begun(i) == i \in 1..Len(parts) /\ parts[i].phase \notin {"none", "skipped"}

\* the stream of part i has been consumed to its end
Consumed(i) == i \in 1..Len(parts) /\ parts[i].phase = "ended"

(* C18: under fair scheduling every file stream that was handed to the     *)
(* 'file' listener is eventually consumed to its end, and every operation  *)
(* on the form route eventually delivers its outcome.                      *)
C18_EventuallySettled ==
    /\ \A i \in 1..MaxParts : Begun(i) ~> Consumed(i)
    /\ FormRoute ~> Settled

(* C19: on the JSON route, whenever the JSON decoder called back with an   *)
(* error, of whatever type, the operation does not end in Success.         *)
C19_DecoderErrorFails ==
    pc = "done" /\ jsonInput.result # "ok" => ~Success

C20_Body ==
    FormRoute =>
        /\ reqBody \in {Undefined, "data"}
        /\ reqBody = "data" <=> busboy.finished /\ errors = <<>>
        /\ timer => reqBody = "data" /\ ~Settled
        /\ Success => reqBody = "data" /\ promise.value = "data"
        /\ Failure => reqBody = Undefined /\ promise.value = "errors"

(* C20: on the form route req.body is only written by the 'finish' handler *)
(* when no violation was recorded: it is then the data object, set in the  *)
(* 'finish' step while the promise is still pending, and the promise is    *)
(* later resolved with that same object; when the operation fails req.body *)
(* is what it was before the call.                                         *)
C20_BodyOnSuccess ==
    [](C20_Body) /\ [][FormRoute /\ reqBody' # reqBody =>
                          /\ ~busboy.finished /\ busboy'.finished
                          /\ promise' = Pending]_vars

C20_Witness ==
    /\ FormRoute /\ Success
    /\ reqBody = "data" /\ promise.value = "data"
    /\ \E i \in FileParts : InTree(i)
    /\ \E i \in FieldParts : InTree(i)

====
